---- MODULE Spec2Model ----
(***************************************************************************)
(* Model of src/app.py (SmartTaskPlanner): the plan-generation pipeline    *)
(* generate_plan -> _generate_tasks_with_llm -> _validate_tasks ->         *)
(* _calculate_total_time, and the fixed fallback plan.                     *)
(*                                                                         *)
(* Python values are tagged records (PyStr, PyInt, PyNone, PyList, PyDict),*)
(* a Python dict is a TLA+ function from its keys, and the outcome of a    *)
(* call is a record whose field exc names the exception class raised       *)
(* ("None" when the call returned).  Text is a TLA+ string and is          *)
(* processed character by character, as the Python string methods do.      *)
(***************************************************************************)
EXTENDS Integers, Sequences, FiniteSets, TLC

VARIABLES
    client,        \* self.client: TRUE when an OpenAI client is configured
    database,      \* self.database
    task_history,  \* self.task_history
    calls,         \* number of completed generate_plan calls
    llm_calls,     \* number of calls made to client.chat.completions.create
    last,          \* the outcome of the latest generate_plan call
    pc,            \* position of the pure-function harness
    arg,           \* the argument handed to the function under test
    ret,           \* what the function under test returned or raised
    total_hours    \* the local total_hours of _calculate_total_time

vars == <<client, database, task_history, calls, llm_calls, last,
          pc, arg, ret, total_hours>>

plannerVars == <<client, database, task_history, calls, llm_calls, last>>
harnessVars == <<pc, arg, ret, total_hours>>

\* ------------------------------------------------------------------ bounds

MaxCalls == 2
MaxTasks == 2

\* ----------------------------------------------------------- Python values

PyStr(s) == [t |-> "str", s |-> s]
PyInt(n) == [t |-> "int", n |-> n]
PyNone == [t |-> "NoneType"]
PyList(a) == [t |-> "list", a |-> a]
PyDict(d) == [t |-> "dict", d |-> d]

Ok(v) == [exc |-> "None", val |-> v]
Raise(e) == [exc |-> e]

\* dict.get(key, default)
Get(d, key, default) == IF key \in DOMAIN d THEN d[key] ELSE default

\* ------------------------------------------------------------ str methods

Char(s, i) == SubSeq(s, i, i)

Upper == "ABCDEFGHIJKLMNOPQRSTUVWXYZ"
LowerAlpha == "abcdefghijklmnopqrstuvwxyz"
DigitChars == "0123456789"
Whitespace == {" ", "\t"}

\* The lower-case letter of each upper-case one
LowerOf ==
    [c \in {Char(Upper, k) : k \in 1..Len(Upper)} |->
        Char(LowerAlpha, CHOOSE k \in 1..Len(Upper) : Char(Upper, k) = c)]

LowerChar(c) == IF c \in DOMAIN LowerOf THEN LowerOf[c] ELSE c

\* str.lower()
RECURSIVE LowerFrom(_, _)
LowerFrom(s, i) ==
    IF i > Len(s) THEN "" ELSE LowerChar(Char(s, i)) \o LowerFrom(s, i + 1)

Lower(s) == LowerFrom(s, 1)

\* sub in s
Contains(s, sub) ==
    \E i \in 1..(Len(s) - Len(sub) + 1) : SubSeq(s, i, i + Len(sub) - 1) = sub

\* s.split(): the maximal runs of non-whitespace characters, in order
RECURSIVE SplitFrom(_, _, _)
SplitFrom(s, i, cur) ==
    IF i > Len(s) THEN (IF cur = "" THEN <<>> ELSE <<cur>>)
    ELSE IF Char(s, i) \in Whitespace
         THEN (IF cur = "" THEN <<>> ELSE <<cur>>) \o SplitFrom(s, i + 1, "")
         ELSE SplitFrom(s, i + 1, cur \o Char(s, i))

Split(s) == SplitFrom(s, 1, "")

\* The value of each decimal digit
DigitValue ==
    [c \in {Char(DigitChars, k) : k \in 1..Len(DigitChars)} |->
        (CHOOSE k \in 1..Len(DigitChars) : Char(DigitChars, k) = c) - 1]

\* str.isdigit on one character
IsDigit(c) == c \in DOMAIN DigitValue

\* ''.join(filter(str.isdigit, tok)): every digit of tok, in order
RECURSIVE FilterDigitsFrom(_, _)
FilterDigitsFrom(tok, i) ==
    IF i > Len(tok) THEN ""
    ELSE (IF IsDigit(Char(tok, i)) THEN Char(tok, i) ELSE "")
         \o FilterDigitsFrom(tok, i + 1)

FilterDigits(tok) == FilterDigitsFrom(tok, 1)

\* The number the first n digits of ds denote
RECURSIVE DecimalValue(_, _)
DecimalValue(ds, n) ==
    IF n = 0 THEN 0
    ELSE 10 * DecimalValue(ds, n - 1) + DigitValue[Char(ds, n)]

\* int(text) on a string of decimal digits: the empty string is a ValueError
ParseInt(ds) ==
    IF Len(ds) = 0 THEN Raise("ValueError") ELSE Ok(DecimalValue(ds, Len(ds)))

\* ------------------------------------------------- _calculate_total_time

HoursPerDay == 8
HoursPerWeek == 40

\* int(''.join(filter(str.isdigit, tokens[0]))), tokens being duration.split()
FirstTokenNumber(tokens) ==
    IF tokens = <<>> THEN Raise("IndexError")
    ELSE ParseInt(FilterDigits(tokens[1]))

LeadingNumber(duration) == FirstTokenNumber(Split(duration))

\* hours = int(...); total_hours += hours * factor, unless int(...) raised
Times(n, factor) == IF n.exc # "None" THEN n ELSE Ok(n.val * factor)

\* Lines 140-148 on the lower-cased duration: the hours it adds
LoweredHours(duration) ==
    IF Contains(duration, "hour") THEN Times(LeadingNumber(duration), 1)
    ELSE IF Contains(duration, "day") THEN Times(LeadingNumber(duration), HoursPerDay)
    ELSE IF Contains(duration, "week") THEN Times(LeadingNumber(duration), HoursPerWeek)
    ELSE Ok(0)

\* Line 138: only a str has lower()
DurationHours(d) ==
    IF d.t # "str" THEN Raise("AttributeError") ELSE LoweredHours(Lower(d.s))

\* One pass of the loop body, lines 138-148: the hours one task adds.
TaskHours(task) == DurationHours(Get(task, "duration", PyStr("1 day")))

\* The loop of lines 135-148: total_hours, or the first exception raised.
RECURSIVE SumHours(_, _)
RECURSIVE AddHours(_, _, _)
AddHours(h, rest, acc) ==
    IF h.exc # "None" THEN h ELSE SumHours(rest, acc + h.val)

SumHours(tasks, acc) ==
    IF tasks = <<>> THEN Ok(acc)
    ELSE AddHours(TaskHours(Head(tasks)), Tail(tasks), acc)

\* RenderTotal with the first threshold taken inclusively (h <= 8)
RenderTotalInclusive(h) ==
    IF h <= HoursPerDay THEN ToString(h) \o " hours"
    ELSE IF h < HoursPerWeek THEN ToString(h \div HoursPerDay) \o " days"
    ELSE ToString(h \div HoursPerWeek) \o " weeks"

\* Lines 150-155: the rendering of the total.
RenderTotal(h) ==
    IF h < HoursPerDay THEN ToString(h) \o " hours"
    ELSE IF h < HoursPerWeek THEN ToString(h \div HoursPerDay) \o " days"
    ELSE ToString(h \div HoursPerWeek) \o " weeks"

Rendered(h) == IF h.exc # "None" THEN h ELSE Ok(RenderTotal(h.val))

CalculateTotalTime(tasks) == Rendered(SumHours(tasks, 0))

\* ---------------------------------------------------------- _validate_tasks

\* The elements a for loop visits: a list's items, a dict's keys, a str's
\* characters; any other value is not iterable (TypeError).
RECURSIVE KeysOf(_)
KeysOf(S) ==
    IF S = {} THEN <<>>
    ELSE LET k == CHOOSE x \in S : TRUE IN <<PyStr(k)>> \o KeysOf(S \ {k})

Iterate(v) ==
    IF v.t = "list" THEN Ok(v.a)
    ELSE IF v.t = "dict" THEN Ok(KeysOf(DOMAIN v.d))
    ELSE IF v.t = "str" THEN Ok([i \in 1..Len(v.s) |-> PyStr(Char(v.s, i))])
    ELSE Raise("TypeError")

\* ValidatedTask numbering from 0, as enumerate(tasks) without a start does
ValidatedTaskFromZero(task, i) ==
    [id |-> i - 1,
     name |-> Get(task, "name", PyStr("Task " \o ToString(i - 1))),
     description |-> Get(task, "description", PyStr("No description")),
     duration |-> Get(task, "duration", PyStr("1 day")),
     dependencies |-> Get(task, "dependencies", PyStr("None")),
     priority |-> Get(task, "priority", PyStr("Medium")),
     deliverables |-> Get(task, "deliverables", PyStr("Task completion")),
     risks |-> Get(task, "risks", PyStr("None identified")),
     status |-> "pending"]

\* ValidatedTask taking the status from the record like the other fields
ValidatedTaskKeepsStatus(task, i) ==
    [id |-> i,
     name |-> Get(task, "name", PyStr("Task " \o ToString(i))),
     description |-> Get(task, "description", PyStr("No description")),
     duration |-> Get(task, "duration", PyStr("1 day")),
     dependencies |-> Get(task, "dependencies", PyStr("None")),
     priority |-> Get(task, "priority", PyStr("Medium")),
     deliverables |-> Get(task, "deliverables", PyStr("Task completion")),
     risks |-> Get(task, "risks", PyStr("None identified")),
     status |-> IF "status" \in DOMAIN task /\ task["status"].t = "str"
                THEN task["status"].s ELSE "pending"]

\* ValidatedTask replacing a priority outside High, Medium, Low by Medium
ValidatedTaskCoercesPriority(task, i) ==
    [id |-> i,
     name |-> Get(task, "name", PyStr("Task " \o ToString(i))),
     description |-> Get(task, "description", PyStr("No description")),
     duration |-> Get(task, "duration", PyStr("1 day")),
     dependencies |-> Get(task, "dependencies", PyStr("None")),
     priority |-> IF Get(task, "priority", PyStr("Medium"))
                        \in {PyStr("High"), PyStr("Medium"), PyStr("Low")}
                  THEN Get(task, "priority", PyStr("Medium"))
                  ELSE PyStr("Medium"),
     deliverables |-> Get(task, "deliverables", PyStr("Task completion")),
     risks |-> Get(task, "risks", PyStr("None identified")),
     status |-> "pending"]

\* Lines 118-128: the validated task built from the record at position i.
ValidatedTask(task, i) ==
    [id |-> i,
     name |-> Get(task, "name", PyStr("Task " \o ToString(i))),
     description |-> Get(task, "description", PyStr("No description")),
     duration |-> Get(task, "duration", PyStr("1 day")),
     dependencies |-> Get(task, "dependencies", PyStr("None")),
     priority |-> Get(task, "priority", PyStr("Medium")),
     deliverables |-> Get(task, "deliverables", PyStr("Task completion")),
     risks |-> Get(task, "risks", PyStr("None identified")),
     status |-> "pending"]

\* The loop of lines 117-129 from position i on, validated holding the
\* tasks built so far; an item that is no dict has no get method
\* (AttributeError).
RECURSIVE ValidateFrom(_, _, _)
ValidateFrom(items, i, validated) ==
    IF i > Len(items) THEN Ok(validated)
    ELSE IF items[i].t # "dict" THEN Raise("AttributeError")
    ELSE ValidateFrom(items, i + 1, Append(validated, ValidatedTask(items[i].d, i)))

ValidateItems(it) ==
    IF it.exc # "None" THEN it ELSE ValidateFrom(it.val, 1, <<>>)

ValidateTasks(tasks) == ValidateItems(Iterate(tasks))

\* --------------------------------------------------- _generate_fallback_plan

FallbackTasks(goal) ==
    << [id |-> 1,
        name |-> PyStr("Planning & Research"),
        description |-> PyStr("Research and plan: " \o goal),
        duration |-> PyStr("2 days"),
        dependencies |-> PyStr("None"),
        priority |-> PyStr("High"),
        deliverables |-> PyStr("Project plan"),
        risks |-> PyStr("Insufficient info"),
        status |-> "pending"],
       [id |-> 2,
        name |-> PyStr("Setup"),
        description |-> PyStr("Environment and tools setup"),
        duration |-> PyStr("1 day"),
        dependencies |-> PyStr("Planning & Research"),
        priority |-> PyStr("High"),
        deliverables |-> PyStr("Ready environment"),
        risks |-> PyStr("Technical issues"),
        status |-> "pending"],
       [id |-> 3,
        name |-> PyStr("Implementation"),
        description |-> PyStr("Core development work"),
        duration |-> PyStr("1 week"),
        dependencies |-> PyStr("Setup"),
        priority |-> PyStr("High"),
        deliverables |-> PyStr("Working prototype"),
        risks |-> PyStr("Complexity"),
        status |-> "pending"] >>

\* GenerateFallbackPlan with the total computed from the task durations, as
\* the service path computes it
GenerateFallbackPlanAggregated(goal, timeframe, uuid, now) ==
    [id |-> uuid,
     goal |-> goal,
     timeframe |-> timeframe,
     tasks |-> FallbackTasks(goal),
     created_at |-> now,
     total_tasks |-> Len(FallbackTasks(goal)),
     estimated_total_time |-> CalculateTotalTime(FallbackTasks(goal)).val]

\* uuid and now stand for str(uuid.uuid4())[:8] and datetime.now().isoformat()
GenerateFallbackPlan(goal, timeframe, uuid, now) ==
    [id |-> uuid,
     goal |-> goal,
     timeframe |-> timeframe,
     tasks |-> FallbackTasks(goal),
     created_at |-> now,
     total_tasks |-> Len(FallbackTasks(goal)),
     estimated_total_time |-> timeframe]

\* -------------------------------------------------- _generate_tasks_with_llm

(***************************************************************************)
(* The text of a response is a sequence of pieces: a fence ("```json" or a *)
(* bare "```") or a run of text free of fences, which carries what         *)
(* json.loads makes of it: the Python value it denotes, or JSONDecodeError. *)
(***************************************************************************)
FenceJson == [k |-> "fence", tag |-> "json"]
Fence == [k |-> "fence", tag |-> ""]
Json(v) == [k |-> "text", json |-> Ok(v)]
Prose == [k |-> "text", json |-> Raise("JSONDecodeError")]

IsFence(p) == p.k = "fence"
IsFenceJson(p) == p.k = "fence" /\ p.tag = "json"

\* Whether piece p holds the separator: "```json" when tagged, else "```",
\* which "```json" contains too
IsSep(p, tagged) == IF tagged THEN IsFenceJson(p) ELSE IsFence(p)

\* text.split("```")[0]: what lies before the first fence of either kind
RECURSIVE UpToFence(_)
UpToFence(text) ==
    IF text = <<>> \/ IsFence(Head(text)) THEN <<>>
    ELSE <<Head(text)>> \o UpToFence(Tail(text))

\* What follows the first separator; with split(sep)[1] it ends at the next
\* separator, and UpToFence cuts it there or earlier
AfterFirst(text, tagged) ==
    LET i == CHOOSE j \in 1..Len(text) :
                 IsSep(text[j], tagged) /\ \A m \in 1..(j - 1) : ~IsSep(text[m], tagged)
    IN SubSeq(text, i + 1, Len(text))

\* Lines 101-104
ExtractJson(text) ==
    IF \E i \in 1..Len(text) : IsFenceJson(text[i])
    THEN UpToFence(AfterFirst(text, TRUE))
    ELSE IF \E i \in 1..Len(text) : IsFence(text[i])
    THEN UpToFence(AfterFirst(text, FALSE))
    ELSE text

\* Line 106: json.loads; the empty string is no JSON document
JsonLoads(text) ==
    IF Len(text) = 1 THEN text[1].json ELSE Raise("JSONDecodeError")

\* Lines 108-109
UnwrapTasks(v) ==
    IF v.t = "dict" /\ "tasks" \in DOMAIN v.d THEN v.d["tasks"] ELSE v

\* Lines 108-111 on what json.loads returned or raised
ValidateParsed(parsed) ==
    IF parsed.exc # "None" THEN parsed ELSE ValidateTasks(UnwrapTasks(parsed.val))

\* resp is what client.chat.completions.create does: it raises, or returns
\* a message whose content is None or text.
GenerateTasksWithLlm(resp) ==
    IF resp.kind = "raise" THEN Raise(resp.exc)
    ELSE IF resp.content.t # "str" THEN Raise("TypeError")
    ELSE ValidateParsed(JsonLoads(ExtractJson(resp.content.text)))

\* ------------------------------------------------------------ generate_plan

\* Catches for a handler written except json.JSONDecodeError
CatchesOnlyParseErrors(e) == e = "JSONDecodeError"

\* Line 62, except Exception: every class raised below it derives from it
Catches(e) == TRUE

\* Lines 47-55, total being what _calculate_total_time returned or raised
AssemblePlan(goal, timeframe, tasks, total, uuid, now) ==
    IF total.exc # "None" THEN total
    ELSE Ok([id |-> uuid,
             goal |-> goal,
             timeframe |-> timeframe,
             tasks |-> tasks,
             created_at |-> now,
             total_tasks |-> Len(tasks),
             estimated_total_time |-> total.val])

\* Lines 45-55, tasks being what _generate_tasks_with_llm returned or raised
PlanFromTasks(goal, timeframe, tasks, uuid, now) ==
    IF tasks.exc # "None" THEN tasks
    ELSE AssemblePlan(goal, timeframe, tasks.val,
                      CalculateTotalTime(tasks.val), uuid, now)

\* The try block, lines 45-55: the plan, or the exception raised on the way
TryServicePlan(goal, timeframe, resp, uuid, now) ==
    PlanFromTasks(goal, timeframe, GenerateTasksWithLlm(resp), uuid, now)

\* Lines 56-64: the plan of the try block is returned; an exception it
\* raised is caught and the fallback plan returned in its place
HandleTry(try, goal, timeframe, uuid, now) ==
    IF try.exc = "None" THEN [path |-> "service", plan |-> try.val]
    ELSE IF Catches(try.exc)
    THEN [path |-> "fallback", plan |-> GenerateFallbackPlan(goal, timeframe, uuid, now)]
    ELSE [path |-> "raised", exc |-> try.exc]

\* Lines 41-64: the path taken, with the plan returned or the exception
\* that escaped
Outcome(goal, timeframe, resp, uuid, now) ==
    IF ~client
    THEN [path |-> "fallback", plan |-> GenerateFallbackPlan(goal, timeframe, uuid, now)]
    ELSE HandleTry(TryServicePlan(goal, timeframe, resp, uuid, now),
                   goal, timeframe, uuid, now)

\* What the state keeps of a call: its arguments, the response and the outcome
CallRecord(out, goal, timeframe, resp) ==
    IF out.path = "raised"
    THEN [path |-> out.path, exc |-> out.exc, goal |-> goal,
          timeframe |-> timeframe, resp |-> resp]
    ELSE [path |-> out.path, plan |-> out.plan, goal |-> goal,
          timeframe |-> timeframe, resp |-> resp]

GeneratePlan(goal, timeframe, additional_context, resp, uuid) ==
    /\ calls < MaxCalls
    /\ \E out \in {Outcome(goal, timeframe, resp, uuid, calls + 1)} :
          /\ llm_calls' = IF client THEN llm_calls + 1 ELSE llm_calls
          /\ database' =
                 IF out.path = "service" THEN Append(database, out.plan) ELSE database
          /\ task_history' =
                 IF out.path = "service" THEN Append(task_history, out.plan)
                 ELSE task_history
          /\ last' = CallRecord(out, goal, timeframe, resp)
    /\ calls' = calls + 1
    /\ UNCHANGED client
    /\ UNCHANGED harnessVars

\* ------------------------------------------------------------------ inputs

Goals == {"Launch website", "Learn piano"}
Timeframes == {"2 weeks", "3 weeks"}
Contexts == {"", "solo founder"}
\* str(uuid.uuid4())[:8]: no operation reads a plan's id, so one token stands
\* for whichever is drawn
PlanIds == {"1b9d6bcd"}

EmptyDict == <<>>

\* Raw task records, as json.loads delivers them
RecFull ==
    [name |-> PyStr("Design"), description |-> PyStr("Draw the pages"),
     duration |-> PyStr("2 hours"), dependencies |-> PyStr("None"),
     priority |-> PyStr("High"), deliverables |-> PyStr("Mockups"),
     risks |-> PyStr("Scope creep")]
RecUrgent ==
    [name |-> PyStr("Build"), duration |-> PyStr("1 day"), priority |-> PyStr("Urgent")]
RecLow ==
    [duration |-> PyStr("1 week"), priority |-> PyStr("Low"),
     status |-> PyStr("done"), id |-> PyInt(7)]
RecNoDigit == [name |-> PyStr("Ship"), duration |-> PyStr("one week")]
RecNumDuration == [name |-> PyStr("Test"), duration |-> PyInt(3)]

Tasks(records) == PyList([i \in 1..Len(records) |-> PyDict(records[i])])

Content(text) == [kind |-> "content", content |-> [t |-> "str", text |-> text]]

\* JSON values that are a sequence of task objects, bare or under "tasks"
ExpectedShapes ==
    { Tasks(<<RecFull, RecUrgent>>),
      Tasks(<<RecFull>>),
      Tasks(<<EmptyDict, RecLow>>),
      Tasks(<<RecNoDigit>>),
      Tasks(<<RecFull, RecNumDuration>>),
      Tasks(<<>>),
      PyDict([tasks |-> Tasks(<<RecFull, EmptyDict>>)]) }

\* JSON values of any other shape
UnexpectedShapes ==
    { PyDict(EmptyDict),
      PyDict([plan |-> PyStr("see below")]),
      PyDict([tasks |-> PyInt(5)]),
      PyDict([tasks |-> PyDict(EmptyDict)]),
      PyDict([tasks |-> PyNone]),
      PyStr("no plan"),
      PyStr(""),
      PyInt(5),
      PyNone,
      PyList(<<PyInt(1), PyStr("Design")>>) }

\* What the external service may do on one call
Responses ==
    { [kind |-> "raise", exc |-> "APIConnectionError"],
      [kind |-> "content", content |-> PyNone],
      Content(<<>>),
      Content(<<Prose>>),
      Content(<<Prose, FenceJson, Prose, Fence>>),
      Content(<<Prose, FenceJson, Json(Tasks(<<RecFull>>)), Fence, Prose>>),
      Content(<<Fence, Json(Tasks(<<EmptyDict, RecLow>>)), Fence>>),
      Content(<<Prose, FenceJson, Json(PyDict(EmptyDict))>>) }
    \cup { Content(<<Json(v)>>) : v \in ExpectedShapes \cup UnexpectedShapes }

\* ------------------------------------------------------------ specification

NotCalled == [exc |-> "NotCalled"]

\* SmartTaskPlanner.__init__ with the module's client, which is None when
\* OPENAI_API_KEY is not set
Init ==
    /\ client \in BOOLEAN
    /\ database = <<>>
    /\ task_history = <<>>
    /\ calls = 0
    /\ llm_calls = 0
    /\ last = [path |-> "none"]
    /\ pc = "idle"
    /\ arg = <<>>
    /\ ret = NotCalled
    /\ total_hours = 0

Next ==
    \E goal \in Goals, timeframe \in Timeframes, additional_context \in Contexts,
       resp \in Responses, uuid \in PlanIds :
        GeneratePlan(goal, timeframe, additional_context, resp, uuid)

Spec == Init /\ [][Next]_vars

\* --------------------------------------- _calculate_total_time on its own

Durations ==
    { "2 hours", "3 hours", "7 hours", "39 hours", "1 day", "2 days", "1 week",
      "2 Weeks", "3days", "  4 hours", "1 day 2 hours", "1-2 days", "1.5 hours",
      "day", "one week", "a few hours", "about 2 weeks", "10 minutes", "soon", "" }

TimedTasks ==
    { [duration |-> PyStr(d)] : d \in Durations }
    \cup { [duration |-> PyInt(3)], [duration |-> PyNone], [name |-> PyStr("Design")] }

RECURSIVE SeqsUpTo(_, _)
SeqsUpTo(S, n) ==
    IF n = 0 THEN {<<>>}
    ELSE LET shorter == SeqsUpTo(S, n - 1) IN
         shorter \cup { Append(q, x) : q \in {r \in shorter : Len(r) = n - 1}, x \in S }

InitTime ==
    /\ client = FALSE
    /\ database = <<>>
    /\ task_history = <<>>
    /\ calls = 0
    /\ llm_calls = 0
    /\ last = [path |-> "none"]
    /\ pc = "call"
    /\ arg \in SeqsUpTo(TimedTasks, MaxTasks)
    /\ ret = NotCalled
    /\ total_hours = 0

CallCalculateTotalTime ==
    /\ pc = "call"
    /\ pc' = "done"
    /\ ret' = CalculateTotalTime(arg)
    /\ total_hours' = LET h == SumHours(arg, 0) IN
                      IF h.exc = "None" THEN h.val ELSE total_hours
    /\ UNCHANGED arg
    /\ UNCHANGED plannerVars

NextTime == CallCalculateTotalTime

SpecTime == InitTime /\ [][NextTime]_vars

\* --------------------------------------------- _validate_tasks on its own

RawItems ==
    { PyDict(RecFull), PyDict(RecUrgent), PyDict(RecLow), PyDict(EmptyDict),
      PyDict(RecNoDigit), PyDict(RecNumDuration),
      PyDict([name |-> PyStr(""), priority |-> PyNone, risks |-> PyList(<<>>)]),
      PyStr("Design") }

InitValidate ==
    /\ client = FALSE
    /\ database = <<>>
    /\ task_history = <<>>
    /\ calls = 0
    /\ llm_calls = 0
    /\ last = [path |-> "none"]
    /\ pc = "call"
    /\ arg \in { PyList(q) : q \in SeqsUpTo(RawItems, MaxTasks) }
    /\ ret = NotCalled
    /\ total_hours = 0

CallValidateTasks ==
    /\ pc = "call"
    /\ pc' = "done"
    /\ ret' = ValidateTasks(arg)
    /\ UNCHANGED <<arg, total_hours>>
    /\ UNCHANGED plannerVars

NextValidate == CallValidateTasks

SpecValidate == InitValidate /\ [][NextValidate]_vars

\* ======================================================================
\* Properties
\* ======================================================================

PlanFields ==
    {"id", "goal", "timeframe", "tasks", "created_at", "total_tasks",
     "estimated_total_time"}

Called == calls > 0

Field(tasks, f) == [i \in 1..Len(tasks) |-> tasks[i][f]]

IsFixedFallback(plan, goal, timeframe) ==
    /\ plan.goal = goal
    /\ plan.timeframe = timeframe
    /\ Field(plan.tasks, "name") =
           <<PyStr("Planning & Research"), PyStr("Setup"), PyStr("Implementation")>>
    /\ Field(plan.tasks, "duration") =
           <<PyStr("2 days"), PyStr("1 day"), PyStr("1 week")>>
    /\ Field(plan.tasks, "priority") = <<PyStr("High"), PyStr("High"), PyStr("High")>>
    /\ Field(plan.tasks, "dependencies") =
           <<PyStr("None"), PyStr("Planning & Research"), PyStr("Setup")>>
    /\ plan.estimated_total_time = timeframe

\* The plans a call has returned or recorded, as far as the state holds them
KnownPlans ==
    {task_history[i] : i \in 1..Len(task_history)}
    \cup {database[i] : i \in 1..Len(database)}
    \cup (IF Called /\ last.path \in {"service", "fallback"} THEN {last.plan} ELSE {})

\* C1: whatever the external service does (it raises, returns no text, text
\* that is not JSON, JSON of any shape, task records with any field values),
\* generate_plan raises nothing: it returns a plan with all seven fields,
\* built from the response or else the fixed fallback plan.
C1_NeverPropagates ==
    Called =>
        /\ last.path \in {"service", "fallback"}
        /\ DOMAIN last.plan = PlanFields
        /\ last.plan.goal = last.goal
        /\ last.plan.timeframe = last.timeframe
        /\ last.path = "fallback" =>
               IsFixedFallback(last.plan, last.goal, last.timeframe)
        /\ last.path = "service" =>
               /\ client
               /\ last.resp.kind = "content"
               /\ last.resp.content.t = "str"

\* C1 witness: the service returned a task whose duration is a number, and
\* the caller still got the fallback plan.
C1_Witness ==
    /\ Called
    /\ client
    /\ last.resp = Content(<<Json(Tasks(<<RecFull, RecNumDuration>>))>>)
    /\ last.path = "fallback"

WellNumbered(plan) ==
    /\ plan.total_tasks = Len(plan.tasks)
    /\ Field(plan.tasks, "id") = [i \in 1..plan.total_tasks |-> i]

\* C2: every plan generate_plan returns, on either path, has total_tasks
\* equal to the number of its tasks, and the task ids in order are
\* 1, 2, ..., total_tasks (none when the plan has no task).
C2_ContiguousIds == \A plan \in KnownPlans : WellNumbered(plan)

\* C2 witness: a service plan without tasks was returned after a service
\* plan with two tasks.
C2_Witness ==
    /\ Len(task_history) = 2
    /\ task_history[1].total_tasks = 2
    /\ task_history[2].total_tasks = 0
    /\ last.path = "service"

\* C3: after any sequence of calls the history holds every plan a call
\* returned, once each and in call order, so its length is the number of
\* completed calls and its latest entry is the plan returned last.
C3_HistoryHoldsEveryReturnedPlan ==
    /\ Len(task_history) = calls
    /\ Called => task_history[calls] = last.plan

\* C4: with no client configured generate_plan calls no external service
\* and returns the three fixed tasks, with estimated_total_time the
\* timeframe it was given and not the aggregate of the task durations.
C4_NoClientFallback ==
    (Called /\ ~client) =>
        /\ llm_calls = 0
        /\ last.path = "fallback"
        /\ last.plan.total_tasks = 3
        /\ Len(last.plan.tasks) = 3
        /\ IsFixedFallback(last.plan, last.goal, last.timeframe)

\* C4 witness: a call without a client, with a timeframe the durations of
\* the fixed tasks (64 hours, "1 weeks") do not add up to.
C4_Witness ==
    /\ Called
    /\ ~client
    /\ last.timeframe = "3 weeks"
    /\ last.plan.estimated_total_time = "3 weeks"

Priorities == {PyStr("High"), PyStr("Medium"), PyStr("Low")}

\* C7 as claimed: every task of every returned plan has a priority among
\* High, Medium and Low.
C7_PriorityInEnumeration ==
    \A plan \in KnownPlans :
        \A i \in 1..Len(plan.tasks) : plan.tasks[i].priority \in Priorities

\* The task records the service's response denotes, for a call that took
\* the service path
RawRecords(resp) ==
    Iterate(UnwrapTasks(JsonLoads(ExtractJson(resp.content.text)).val)).val

\* C7 as amended: a fallback plan's tasks all have priority High; on the
\* service path a record without priority yields Medium and a record's own
\* priority is kept as it is, inside the enumeration or not.
C7_PriorityVerbatimOrMedium ==
    Called =>
        /\ last.path = "fallback" =>
               \A i \in 1..Len(last.plan.tasks) :
                   last.plan.tasks[i].priority = PyStr("High")
        /\ last.path = "service" =>
               /\ Len(last.plan.tasks) = Len(RawRecords(last.resp))
               /\ \A i \in 1..Len(last.plan.tasks) :
                      LET raw == RawRecords(last.resp)[i].d IN
                      last.plan.tasks[i].priority =
                          IF "priority" \in DOMAIN raw THEN raw["priority"]
                          ELSE PyStr("Medium")

\* C7 witness: a returned service plan holds a task of priority "Urgent".
C7_Witness ==
    /\ Called
    /\ last.path = "service"
    /\ \E i \in 1..Len(last.plan.tasks) : last.plan.tasks[i].priority = PyStr("Urgent")

\* A sequence of task objects, or an object whose "tasks" is a sequence
IsExpectedShape(v) ==
    \/ v.t = "list" /\ \A i \in 1..Len(v.a) : v.a[i].t = "dict"
    \/ v.t = "dict" /\ "tasks" \in DOMAIN v.d /\ v.d["tasks"].t = "list"

ParsedResponse(resp) == JsonLoads(ExtractJson(resp.content.text))

\* C10: when the service's text parses as JSON that is neither a sequence
\* of task objects nor an object whose "tasks" is a sequence, the call
\* returns the fallback plan, never a plan built from that value.
C10_UnexpectedShapeFallsBack ==
    ( /\ Called
      /\ client
      /\ last.resp.kind = "content"
      /\ last.resp.content.t = "str"
      /\ ParsedResponse(last.resp).exc = "None"
      /\ ~IsExpectedShape(ParsedResponse(last.resp).val) )
    => last.path = "fallback"

\* ------------------------------------------- properties of the aggregator

DurationOf(task) == Get(task, "duration", PyStr("1 day"))

AllText(tasks) == \A i \in 1..Len(tasks) : DurationOf(tasks[i]).t = "str"

\* 1, 8 or 40 by the first unit word found, in the order hour, day, week;
\* 0 when the text holds none of them
UnitHours(duration) ==
    IF Contains(duration, "hour") THEN 1
    ELSE IF Contains(duration, "day") THEN 8
    ELSE IF Contains(duration, "week") THEN 40
    ELSE 0

FirstToken(duration) ==
    IF Split(duration) = <<>> THEN "" ELSE Split(duration)[1]

\* The longest prefix of tok made of digits
RECURSIVE LeadingDigitsFrom(_, _)
LeadingDigitsFrom(tok, i) ==
    IF i > Len(tok) \/ ~IsDigit(Char(tok, i)) THEN ""
    ELSE Char(tok, i) \o LeadingDigitsFrom(tok, i + 1)

LeadingDigits(tok) == LeadingDigitsFrom(tok, 1)

NumberOr0(ds) == IF ds = "" THEN 0 ELSE DecimalValue(ds, Len(ds))

\* What C5 has a task add: nothing without a unit word or without a digit
\* in the first token, else its number times the unit
SilentHours(task) ==
    LET duration == Lower(DurationOf(task).s) IN
    UnitHours(duration) * NumberOr0(FilterDigits(FirstToken(duration)))

RECURSIVE SilentTotal(_)
SilentTotal(tasks) ==
    IF tasks = <<>> THEN 0 ELSE SilentHours(Head(tasks)) + SilentTotal(Tail(tasks))

\* C5: a task whose duration names a unit but has no digit in its first
\* token, or names no unit, adds zero hours and raises nothing; the total
\* of the other tasks is still returned.
C5_SilentZero ==
    (pc = "done" /\ AllText(arg)) =>
        /\ ret.exc = "None"
        /\ total_hours = SilentTotal(arg)
        /\ ret.val = RenderTotal(SilentTotal(arg))

\* What C8 has a task add: the leading run of digits of the first token,
\* times 1, 8 or 40 by the first unit word found
LeadingRunHours(task) ==
    LET duration == Lower(DurationOf(task).s) IN
    UnitHours(duration) * NumberOr0(LeadingDigits(FirstToken(duration)))

RECURSIVE LeadingRunTotal(_)
LeadingRunTotal(tasks) ==
    IF tasks = <<>> THEN 0
    ELSE LeadingRunHours(Head(tasks)) + LeadingRunTotal(Tail(tasks))

\* The first token of every duration that names a unit starts with a digit
StartsWithNumber(tasks) ==
    \A i \in 1..Len(tasks) :
        LET duration == Lower(DurationOf(tasks[i]).s) IN
        UnitHours(duration) # 0 => LeadingDigits(FirstToken(duration)) # ""

\* C8: each task adds the leading run of digits of its first token times
\* 1, 8 or 40, the unit being the first of hour, day, week its lower-cased
\* duration contains, and the total is the sum over the tasks.
C8_LeadingRunTimesUnit ==
    (pc = "done" /\ AllText(arg) /\ StartsWithNumber(arg)) =>
        /\ ret.exc = "None"
        /\ total_hours = LeadingRunTotal(arg)

\* C9: a total of h hours is rendered "{h} hours" below 8, "{h // 8} days"
\* from 8 to 39 and "{h // 40} weeks" from 40 on, the remainder dropped and
\* the unit word plural even for 1.
C9_Rendering ==
    (pc = "done" /\ ret.exc = "None") =>
        /\ total_hours >= 0
        /\ total_hours < 8 => ret.val = ToString(total_hours) \o " hours"
        /\ (8 <= total_hours /\ total_hours < 40) =>
               ret.val = ToString(total_hours \div 8) \o " days"
        /\ total_hours >= 40 => ret.val = ToString(total_hours \div 40) \o " weeks"
        /\ total_hours = 0 => ret.val = "0 hours"
        /\ total_hours = 10 => ret.val = "1 days"
        /\ total_hours = 40 => ret.val = "1 weeks"

\* C9 witness: "2 hours" and "1 day" came to 10 hours, rendered "1 days".
C9_Witness ==
    /\ pc = "done"
    /\ arg = <<[duration |-> PyStr("2 hours")], [duration |-> PyStr("1 day")]>>
    /\ total_hours = 10
    /\ ret = Ok("1 days")

\* -------------------------------------------- properties of the validator

TaskFields ==
    {"name", "description", "duration", "dependencies", "priority",
     "deliverables", "risks"}

DocumentedDefault(f, i) ==
    CASE f = "name" -> PyStr("Task " \o ToString(i))
      [] f = "description" -> PyStr("No description")
      [] f = "duration" -> PyStr("1 day")
      [] f = "dependencies" -> PyStr("None")
      [] f = "priority" -> PyStr("Medium")
      [] f = "deliverables" -> PyStr("Task completion")
      [] f = "risks" -> PyStr("None identified")

AllRecords(items) == \A i \in 1..Len(items) : items[i].t = "dict"

\* C6: the record at position i yields a task whose absent fields take the
\* documented defaults, whose present fields are kept as they are, and
\* whose status is "pending" whatever the record says; the result has the
\* length and the order of the input.
C6_DefaultsAndVerbatim ==
    (pc = "done" /\ AllRecords(arg.a)) =>
        /\ ret.exc = "None"
        /\ Len(ret.val) = Len(arg.a)
        /\ \A i \in 1..Len(arg.a) :
               /\ ret.val[i].status = "pending"
               /\ \A f \in TaskFields :
                      ret.val[i][f] =
                          IF f \in DOMAIN arg.a[i].d THEN arg.a[i].d[f]
                          ELSE DocumentedDefault(f, i)

\* C6 witness: two records were validated, the first without any field,
\* the second with a status of its own.
C6_Witness ==
    /\ pc = "done"
    /\ arg = PyList(<<PyDict(EmptyDict), PyDict(RecLow)>>)
    /\ ret.exc = "None"
    /\ ret.val[1].name = PyStr("Task 1")
    /\ ret.val[2].name = PyStr("Task 2")
    /\ ret.val[2].priority = PyStr("Low")
    /\ ret.val[2].status = "pending"

====
